---- MODULE Spec2Model ----
(***************************************************************************)
(* Model of zd_uploadcopy.py: fetch_articles_with_filters and the four     *)
(* paginated fetch functions it calls, the category filter, the published  *)
(* filter and the de-duplication pass; format_articles_for_ada, which      *)
(* turns the fetched articles into Ada articles; upload_articles_to_ada,   *)
(* which posts them one by one.                                            *)
(*                                                                         *)
(* A string the code builds by concatenation is a tuple of its parts:      *)
(* f"https://{sub}.zendesk.com" is <<"https://", sub, ".zendesk.com">>.    *)
(* None, a missing dict key and an empty list are all falsy in the code;   *)
(* an unselected filter is the empty sequence, a missing session key is    *)
(* Missing, a missing article field is a field absent from the record.     *)
(***************************************************************************)
EXTENDS Integers, Sequences, FiniteSets, TLC

VARIABLES
    zd_email,            \* st.session_state['zd_email'] ("" when unset)
    zd_token,            \* st.session_state['zd_token'] ("" when unset)
    zd_subdomain,        \* st.session_state['zd_subdomain']
    published_only,      \* st.session_state['published_only']
    brands,              \* st.session_state['brands'] (Missing or a list)
    sections,            \* st.session_state['sections'] (Missing or a list)
    selected_locales,    \* argument of fetch_articles_with_filters
    selected_brands,     \* argument of fetch_articles_with_filters
    selected_categories, \* argument of fetch_articles_with_filters
    pc,                  \* fetch: "call", "fetch" (a GET is in flight), "fetched",
                         \* "done"; category filter: "filter", "filtered";
                         \* transform: "format", "formatted"; upload: "upload",
                         \* "post" (a POST is in flight), "uploaded"
    call,                \* ordinal of the running fetch_* call in the planner's loops
    page,                \* local `page` of the running fetch_* call
    articles,            \* local `articles` accumulator of the running fetch_* call
    all_articles,        \* local `all_articles` of fetch_articles_with_filters
    requests,            \* every requests.get issued, with the response it got
    returned,            \* the value returned by each finished fetch_* call
    result,              \* the value fetch_articles_with_filters returns
    shown,               \* what st.error, st.warning, st.info and st.success displayed
    fetched_articles,    \* st.session_state['fetched_articles'], the batch to transform
    knowledge_source_id, \* argument of format_articles_for_ada
    override_language,   \* argument of format_articles_for_ada ("" for None)
    formatted_articles,  \* the value format_articles_for_ada returns
    skipped_count,       \* local of format_articles_for_ada, logged at line 766
    ada_subdomain,       \* st.session_state['ada_subdomain'] ("" when unset)
    ada_api_token,       \* st.session_state['ada_api_token'] ("" when unset)
    upload_i,            \* local `i` of upload_articles_to_ada: the article being sent
    success_count,       \* local of upload_articles_to_ada
    error_count,         \* local of upload_articles_to_ada
    posts,               \* every requests.post issued, with the response it got
    sleeps,              \* every time.sleep of upload_articles_to_ada, in milliseconds
    api_logs,            \* the entries add_log appended to st.session_state['api_logs']
    summary              \* local `summary` of upload_articles_to_ada (line 826)

vars == <<zd_email, zd_token, zd_subdomain, published_only, brands, sections,
          selected_locales, selected_brands, selected_categories,
          pc, call, page, articles, all_articles, requests, returned, result,
          shown, fetched_articles, knowledge_source_id, override_language,
          formatted_articles, skipped_count, ada_subdomain, ada_api_token,
          upload_i, success_count, error_count, posts, sleeps, api_logs, summary>>

\* the state of the transform and of the upload
adaVars == <<fetched_articles, knowledge_source_id, override_language,
             formatted_articles, skipped_count, ada_subdomain, ada_api_token,
             upload_i, success_count, error_count, posts, sleeps, summary>>

\* the state of the upload, apart from pc and shown
uploadVars == <<ada_subdomain, ada_api_token, upload_i, success_count, error_count,
                posts, sleeps, summary>>

config == <<zd_email, zd_token, zd_subdomain, published_only, brands, sections,
            selected_locales, selected_brands, selected_categories>>

----------------------------------------------------------------------------
(* Bounds and input sets *)

MaxPages == 2      \* the remote service offers no next page from this page on
MaxLen   == 3      \* length of the concatenated lists the post-passes are tried on

PER_PAGE == 100

\* a session-state key: absent, or present with a list as its value
Missing   == [present |-> FALSE, value |-> <<>>]
Loaded(v) == [present |-> TRUE, value |-> v]

\* the `brand` of a fetch call that is not brand-scoped
NoBrand == [id |-> 0, name |-> "", subdomain |-> "", host_mapping |-> ""]

Range(s) == {s[i] : i \in 1..Len(s)}

RECURSIVE Concat(_)
Concat(ss) == IF ss = <<>> THEN <<>> ELSE Head(ss) \o Concat(Tail(ss))

\* the elements of s that lie in S, in the order of s
RECURSIVE KeepIds(_, _)
KeepIds(s, S) ==
    IF s = <<>> THEN <<>>
    ELSE (IF Head(s) \in S THEN <<Head(s)>> ELSE <<>>) \o KeepIds(Tail(s), S)

BrandA == [id |-> 1, name |-> "Bar", subdomain |-> "bar", host_mapping |-> "help.bar.com"]
BrandB == [id |-> 2, name |-> "Foo", subdomain |-> "foo", host_mapping |-> ""]
\* a brand the service lists without a host_mapping key
BrandC == [id |-> 3, name |-> "Baz", subdomain |-> "baz"]

BrandLists     == {Missing, Loaded(<<>>), Loaded(<<BrandA, BrandB>>), Loaded(<<BrandC>>)}
LocaleChoices  == {<<>>, <<"en">>, <<"en", "fr">>}
CategoryChoices == {<<>>, <<10>>}
SectionTable   == <<[id |-> 1, category_id |-> 10], [id |-> 2, category_id |-> 20]>>
SectionTables  == {Missing, Loaded(SectionTable)}
Credentials    == {"", "set"}
ErrorStatuses  == {201, 401, 429}

\* what the brand multiselect can hand to fetch_articles_with_filters: the
\* ids of the chosen loaded brands, in the order of the loaded list
BrandSelections(bs) ==
    {KeepIds([i \in 1..Len(bs.value) |-> bs.value[i].id], S) :
        S \in SUBSET {bs.value[i].id : i \in 1..Len(bs.value)}}

----------------------------------------------------------------------------
(* Pure functions of the source *)

\* a variant that asks for an email or a token, not both
get_zd_auth_either(email, token) ==
    IF email = "" /\ token = "" THEN "None" ELSE <<email, "/token", token>>

\* None is the string "None"
get_zd_auth(email, token) ==
    IF email = "" \/ token = "" THEN "None" ELSE <<email, "/token", token>>

\* a variant that always builds the URL from the subdomain
get_brand_base_url_subdomain(brand) ==
    <<"https://", brand.subdomain, ".zendesk.com">>

\* lines 79-84; brand.get('host_mapping') is falsy when the key is missing
get_brand_base_url(brand) ==
    IF "host_mapping" \in DOMAIN brand /\ brand.host_mapping # ""
    THEN <<"https://", brand.host_mapping>>
    ELSE <<"https://", brand.subdomain, ".zendesk.com">>


\* lines 449-451; brand['id'] in selected_brands
selected_brand_objects(bs, sb) ==
    IF sb # <<>> /\ bs.present
    THEN SelectSeq(bs.value, LAMBDA brand : brand.id \in Range(sb))
    ELSE <<>>

\* article.get('draft', True): an article without the field counts as a draft
DraftOf(article) == IF "draft" \in DOMAIN article THEN article.draft ELSE TRUE

filter_published_articles(arts, pub) ==
    IF ~pub THEN arts
    ELSE SelectSeq(arts, LAMBDA article : ~DraftOf(article))

\* the inner loop of filter_by_categories over st.session_state['sections']
\* a variant that keeps an article as soon as its section is in the table
RECURSIVE SectionScan_anyCategory(_, _, _)
SectionScan_anyCategory(secs, article_section_id, sc) ==
    IF secs = <<>> THEN FALSE
    ELSE IF Head(secs).id = article_section_id
         THEN TRUE
         ELSE SectionScan_anyCategory(Tail(secs), article_section_id, sc)

\* lines 696-700: the scan of the section table for one article
RECURSIVE SectionScan(_, _, _)
SectionScan(secs, article_section_id, sc) ==
    IF secs = <<>> THEN FALSE
    ELSE IF Head(secs).id = article_section_id /\ Head(secs).category_id \in Range(sc)
         THEN TRUE
         ELSE SectionScan(Tail(secs), article_section_id, sc)

\* article.get('section_id') is None (field absent) or 0: falsy
HasSection(article) == "section_id" \in DOMAIN article /\ article.section_id # 0

\* a variant that filters against whatever table there is
filter_by_categories_closed(arts, sc, secs) ==
    IF sc = <<>> THEN arts
    ELSE SelectSeq(arts, LAMBDA article :
             HasSection(article) /\ SectionScan(secs.value, article.section_id, sc))

\* lines 683-701
filter_by_categories(arts, sc, secs) ==
    IF sc = <<>> THEN arts
    ELSE IF ~secs.present \/ secs.value = <<>> THEN arts
    ELSE SelectSeq(arts, LAMBDA article :
             HasSection(article) /\ SectionScan(secs.value, article.section_id, sc))

\* a variant that keeps the last article of each id instead of the first
RECURSIVE DedupeFrom_keepLast(_, _)
DedupeFrom_keepLast(arts, seen_ids) ==
    IF arts = <<>> THEN <<>>
    ELSE IF \E k \in 1..Len(Tail(arts)) : Tail(arts)[k].id = Head(arts).id
         THEN DedupeFrom_keepLast(Tail(arts), seen_ids)
         ELSE <<Head(arts)>> \o DedupeFrom_keepLast(Tail(arts), seen_ids)

\* lines 486-492: seen_ids / unique_articles
RECURSIVE DedupeFrom(_, _)
DedupeFrom(arts, seen_ids) ==
    IF arts = <<>> THEN <<>>
    ELSE IF Head(arts).id \notin seen_ids
         THEN <<Head(arts)>> \o DedupeFrom(Tail(arts), seen_ids \cup {Head(arts).id})
         ELSE DedupeFrom(Tail(arts), seen_ids)

Dedupe(arts) == DedupeFrom(arts, {})

\* a variant whose category post-pass needs brands and locales together
Filtered_bothOnly(all, sl, sb, sc, pub, secs) ==
    LET afterCat == IF sc # <<>> /\ (sb # <<>> /\ sl # <<>>)
                    THEN filter_by_categories(all, sc, secs)
                    ELSE all
    IN  IF pub THEN filter_published_articles(afterCat, pub) ELSE afterCat

\* lines 475-484: the category post-pass and the published filter
Filtered(all, sl, sb, sc, pub, secs) ==
    LET afterCat == IF sc # <<>> /\ (sb # <<>> \/ sl # <<>>)
                    THEN filter_by_categories(all, sc, secs)
                    ELSE all
    IN  IF pub THEN filter_published_articles(afterCat, pub) ELSE afterCat

\* a variant that de-duplicates before it drops the drafts
unique_articles_dedupeFirst(all, sl, sb, sc, pub, secs) ==
    filter_published_articles(
        Dedupe(IF sc # <<>> /\ (sb # <<>> \/ sl # <<>>)
               THEN filter_by_categories(all, sc, secs)
               ELSE all), pub)

\* lines 475-492: the passes in the order the code runs them
unique_articles(all, sl, sb, sc, pub, secs) ==
    Dedupe(Filtered(all, sl, sb, sc, pub, secs))

----------------------------------------------------------------------------
(* The planner: which fetch_* calls fetch_articles_with_filters makes *)

BrandCall(brand) ==
    [fn |-> "fetch_brand_articles", brand |-> brand, locale |-> "",
     base_url |-> get_brand_base_url(brand) \o <<"/api/v2/help_center/articles">>]

LocaleCall(locale, sub) ==
    [fn |-> "fetch_locale_articles", brand |-> NoBrand, locale |-> locale,
     base_url |-> <<"https://", sub, ".zendesk.com">>
                  \o <<"/api/v2/help_center/", locale, "/articles">>]

BrandLocaleCall(brand, locale) ==
    [fn |-> "fetch_brand_locale_articles", brand |-> brand, locale |-> locale,
     base_url |-> get_brand_base_url(brand)
                  \o <<"/api/v2/help_center/", locale, "/articles">>]

AllCall(sub) ==
    [fn |-> "fetch_all_articles_for_category_filter", brand |-> NoBrand, locale |-> "",
     base_url |-> <<"https://", sub, ".zendesk.com">> \o <<"/api/v2/help_center/articles">>]

\* a variant whose brand+locale loops are nested the other way round
Plan_localeOuter(email, token, sub, bs, sl, sb, sc) ==
    LET objs == selected_brand_objects(bs, sb) IN
    IF get_zd_auth(email, token) = "None" THEN <<>>
    ELSE IF sl = <<>> /\ sb = <<>> /\ sc = <<>> THEN <<>>
    ELSE IF sb # <<>> /\ sl = <<>>
         THEN [i \in 1..Len(objs) |-> BrandCall(objs[i])]
    ELSE IF sl # <<>> /\ sb = <<>>
         THEN [j \in 1..Len(sl) |-> LocaleCall(sl[j], sub)]
    ELSE IF sb # <<>> /\ sl # <<>>
         THEN Concat([j \in 1..Len(sl) |->
                        [i \in 1..Len(objs) |-> BrandLocaleCall(objs[i], sl[j])]])
    ELSE IF sc # <<>> /\ sb = <<>> /\ sl = <<>>
         THEN <<AllCall(sub)>>
    ELSE <<>>

\* a variant whose first branch tests the brands alone, so that it also
\* takes the selections that name brands and locales
Plan_brandFirst(email, token, sub, bs, sl, sb, sc) ==
    LET objs == selected_brand_objects(bs, sb) IN
    IF get_zd_auth(email, token) = "None" THEN <<>>
    ELSE IF sl = <<>> /\ sb = <<>> /\ sc = <<>> THEN <<>>
    ELSE IF sb # <<>>
         THEN [i \in 1..Len(objs) |-> BrandCall(objs[i])]
    ELSE IF sl # <<>> /\ sb = <<>>
         THEN [j \in 1..Len(sl) |-> LocaleCall(sl[j], sub)]
    ELSE IF sc # <<>> /\ sb = <<>> /\ sl = <<>>
         THEN <<AllCall(sub)>>
    ELSE <<>>

\* a variant without the no-filter return whose last branch is a plain `else`
Plan_fetchAllByDefault(email, token, sub, bs, sl, sb, sc) ==
    LET objs == selected_brand_objects(bs, sb) IN
    IF get_zd_auth(email, token) = "None" THEN <<>>
    ELSE IF sb # <<>> /\ sl = <<>>
         THEN [i \in 1..Len(objs) |-> BrandCall(objs[i])]
    ELSE IF sl # <<>> /\ sb = <<>>
         THEN [j \in 1..Len(sl) |-> LocaleCall(sl[j], sub)]
    ELSE IF sb # <<>> /\ sl # <<>>
         THEN Concat([i \in 1..Len(objs) |->
                        [j \in 1..Len(sl) |-> BrandLocaleCall(objs[i], sl[j])]])
    ELSE <<AllCall(sub)>>

\* the fetch_* calls of lines 427-473, in the order the loops make them;
\* empty when the function returns early (no auth, no filter)
Plan(email, token, sub, bs, sl, sb, sc) ==
    LET objs == selected_brand_objects(bs, sb) IN
    IF get_zd_auth(email, token) = "None" THEN <<>>
    ELSE IF sl = <<>> /\ sb = <<>> /\ sc = <<>> THEN <<>>
    ELSE IF sb # <<>> /\ sl = <<>>
         THEN [i \in 1..Len(objs) |-> BrandCall(objs[i])]
    ELSE IF sl # <<>> /\ sb = <<>>
         THEN [j \in 1..Len(sl) |-> LocaleCall(sl[j], sub)]
    ELSE IF sb # <<>> /\ sl # <<>>
         THEN Concat([i \in 1..Len(objs) |->
                        [j \in 1..Len(sl) |-> BrandLocaleCall(objs[i], sl[j])]])
    ELSE IF sc # <<>> /\ sb = <<>> /\ sl = <<>>
         THEN <<AllCall(sub)>>
    ELSE <<>>

\* a variant that leaves the loops after their first call
NextCall_returnInLoop(c, n) == 0

\* the for loops: the call after call c of n, 0 when the loops are over
NextCall(c, n) == IF c < n THEN c + 1 ELSE 0

----------------------------------------------------------------------------
(* One pagination loop iteration of a fetch_* function *)

\* lines 524-528 / 624-628: only the two brand-scoped functions annotate
Annotate(page_articles, d) ==
    IF d.fn \notin {"fetch_brand_articles", "fetch_brand_locale_articles"}
    THEN page_articles
    ELSE [k \in 1..Len(page_articles) |->
             [_brand_name |-> d.brand.name, _brand_id |-> d.brand.id,
              _brand_subdomain |-> d.brand.subdomain,
              _brand_url |-> get_brand_base_url(d.brand)] @@ page_articles[k]]

\* a variant that assigns the page to the accumulator instead of extending it
FetchStep_assign(o, d, p, acc) ==
    IF ~o.fault /\ o.status = 200
    THEN [articles |-> Annotate(o.articles, d),
          page     |-> IF o.next_page THEN p + 1 ELSE p,
          again    |-> o.next_page]
    ELSE [articles |-> acc, page |-> p, again |-> FALSE]

\* a variant that throws the accumulated pages away on a failure
FetchStep_discard(o, d, p, acc) ==
    IF ~o.fault /\ o.status = 200
    THEN [articles |-> acc \o Annotate(o.articles, d),
          page     |-> IF o.next_page THEN p + 1 ELSE p,
          again    |-> o.next_page]
    ELSE [articles |-> <<>>, page |-> p, again |-> FALSE]

\* the body of `while True` for the response o: the new accumulator, the
\* new page number and whether the loop goes round again
FetchStep(o, d, p, acc) ==
    IF ~o.fault /\ o.status = 200
    THEN [articles |-> acc \o Annotate(o.articles, d),
          page     |-> IF o.next_page THEN p + 1 ELSE p,
          again    |-> o.next_page]
    ELSE [articles |-> acc, page |-> p, again |-> FALSE]

\* the remote Help Center: the article it lists on page p of an endpoint; a
\* brand has its own articles, the locale variants of an article share its id
ServerPage(d, p) ==
    <<[id |-> 10 * d.brand.id + p, section_id |-> p, draft |-> (p % 2 = 0),
       locale |-> IF d.locale = "" THEN "en-us" ELSE d.locale]>>

----------------------------------------------------------------------------
(* What the pipeline displays *)

\* line 826 has not been reached
NoSummary == [present |-> FALSE, success_count |-> 0, error_count |-> 0,
              total_articles |-> 0]

\* no upload is under way
UploadIdle ==
    /\ ada_subdomain = "set"
    /\ ada_api_token = "set"
    /\ upload_i = 0
    /\ success_count = 0
    /\ error_count = 0
    /\ posts = <<>>
    /\ sleeps = <<>>
    /\ summary = NoSummary

\* nothing fetched is being transformed or uploaded
AdaIdle ==
    /\ fetched_articles = <<>>
    /\ knowledge_source_id = ""
    /\ override_language = <<>>
    /\ formatted_articles = [articles |-> <<>>]
    /\ skipped_count = 0
    /\ UploadIdle

Shown(kind, text) == [kind |-> kind, text |-> text]

\* lines 688-690: the st.warning of filter_by_categories
filter_by_categories_warnings(sc, secs) ==
    IF sc = <<>> THEN <<>>
    ELSE IF ~secs.present \/ secs.value = <<>>
         THEN <<Shown("warning", "sections data not available")>>
         ELSE <<>>

\* lines 429-431 and 444-447: the message of an early return
EarlyMessages(email, token, sl, sb, sc) ==
    IF get_zd_auth(email, token) = "None"
    THEN <<Shown("error", "authentication is required")>>
    ELSE IF sl = <<>> /\ sb = <<>> /\ sc = <<>>
         THEN <<Shown("info", "no filters selected")>>
         ELSE <<>>

\* lines 475-484: the messages of the passes after the branches
PassMessages(sl, sb, sc, pub, secs) ==
    (IF sc # <<>> /\ (sb # <<>> \/ sl # <<>>)
     THEN filter_by_categories_warnings(sc, secs) ELSE <<>>)
    \o (IF pub THEN <<Shown("info", "filtered to published articles")>> ELSE <<>>)

\* lines 540-549 (and the same lines of the other fetch functions)
FetchMessages(o) ==
    IF o.fault THEN <<Shown("error", "network error")>>
    ELSE IF o.status # 200 THEN <<Shown("error", "failed to fetch articles")>>
    ELSE <<>>

\* lines 23-51: the entry add_log appends, by its action and its status
Log(action, status) == [action |-> action, status |-> status]

\* the `action` the running fetch function passes to add_log
LogAction(d) ==
    IF d.fn = "fetch_brand_articles" THEN "Fetch Brand Articles"
    ELSE IF d.fn = "fetch_locale_articles" THEN "Fetch Locale Articles"
    ELSE "Fetch Brand+Locale Articles"

\* lines 509, 561, 608: the entry a fetch function writes before its loop;
\* fetch_all_articles_for_category_filter (lines 655-681) never calls add_log
CallLogs(d) ==
    IF d.fn = "fetch_all_articles_for_category_filter" THEN <<>>
    ELSE <<Log(LogAction(d), "INFO")>>

\* lines 532, 542, 550 (and the same lines of the locale and brand+locale
\* functions): the entry written for one response
FetchLogs(o, d) ==
    IF d.fn = "fetch_all_articles_for_category_filter" THEN <<>>
    ELSE IF ~o.fault /\ o.status = 200 THEN <<Log(LogAction(d), "SUCCESS")>>
    ELSE <<Log(LogAction(d), "ERROR")>>

\* line 445: the entry of the early return without filters
EarlyLogs(email, token, sl, sb, sc) ==
    IF get_zd_auth(email, token) = "None" THEN <<>>
    ELSE IF sl = <<>> /\ sb = <<>> /\ sc = <<>>
         THEN <<Log("Fetch Articles", "INFO")>>
         ELSE <<>>

\* lines 483 and 494: the entries of the passes after the branches
PassLogs(pub) ==
    (IF pub THEN <<Log("Filter Published", "INFO")>> ELSE <<>>)
    \o <<Log("Fetch Articles", "SUCCESS")>>

----------------------------------------------------------------------------
(* fetch_articles_with_filters as a state machine: one step per HTTP call *)

ThePlan == Plan(zd_email, zd_token, zd_subdomain, brands,
                selected_locales, selected_brands, selected_categories)

TheFiltered(all) == Filtered(all, selected_locales, selected_brands,
                             selected_categories, published_only, sections)

TheUnique(all) == unique_articles(all, selected_locales, selected_brands,
                                  selected_categories, published_only, sections)

Init ==
    /\ zd_email \in Credentials
    /\ zd_token \in Credentials
    /\ zd_subdomain = "foo"
    /\ published_only \in BOOLEAN
    /\ brands \in BrandLists
    /\ sections \in SectionTables
    /\ selected_locales \in LocaleChoices
    /\ selected_brands \in BrandSelections(brands)
    /\ selected_categories \in CategoryChoices
    /\ pc = "call"
    /\ call = 0
    /\ page = 0
    /\ articles = <<>>
    /\ all_articles = <<>>
    /\ requests = <<>>
    /\ returned = <<>>
    /\ result = <<>>
    /\ shown = <<>>
    /\ api_logs = <<>>
    /\ AdaIdle

\* lines 422-453: entry, the early returns, and the way to the first GET; a
\* branch whose loops make no call falls through the passes with an empty list
CallFetch ==
    /\ pc = "call"
    /\ IF ThePlan = <<>>
       THEN /\ pc' = "done"
            /\ result' = <<>>
            /\ shown' = LET early == EarlyMessages(zd_email, zd_token, selected_locales,
                                                   selected_brands, selected_categories)
                         IN  IF early # <<>> THEN early
                             ELSE PassMessages(selected_locales, selected_brands,
                                               selected_categories, published_only, sections)
            /\ api_logs' = api_logs \o
                  (IF EarlyMessages(zd_email, zd_token, selected_locales,
                                    selected_brands, selected_categories) # <<>>
                   THEN EarlyLogs(zd_email, zd_token, selected_locales,
                                  selected_brands, selected_categories)
                   ELSE PassLogs(published_only))
            /\ UNCHANGED <<call, page>>
       ELSE /\ pc' = "fetch"
            /\ call' = 1
            /\ page' = 1
            /\ api_logs' = api_logs \o CallLogs(ThePlan[1])
            /\ UNCHANGED <<result, shown>>
    /\ UNCHANGED <<config, articles, all_articles, requests, returned, adaVars>>

\* `return articles` of the running fetch_* call, then lines 455-499 up to
\* the next GET or to `return unique_articles`
EndCall(ret, msgs, logs) ==
    LET d    == ThePlan[call]
        all1 == IF d.fn = "fetch_all_articles_for_category_filter"
                THEN filter_by_categories(ret, selected_categories, sections)
                ELSE all_articles \o ret
        nc   == NextCall(call, Len(ThePlan))
        warn == IF d.fn = "fetch_all_articles_for_category_filter"
                THEN filter_by_categories_warnings(selected_categories, sections)
                ELSE <<>>
        pass == IF nc # 0 THEN <<>>
                ELSE PassMessages(selected_locales, selected_brands,
                                  selected_categories, published_only, sections)
    IN  /\ returned' = Append(returned, ret)
        /\ shown' = shown \o msgs \o warn \o pass
        /\ api_logs' = api_logs \o logs \o
              (IF nc # 0 THEN CallLogs(ThePlan[nc]) ELSE PassLogs(published_only))
        /\ IF nc # 0
           THEN /\ call' = nc
                /\ page' = 1
                /\ articles' = <<>>
                /\ all_articles' = all1
                /\ pc' = "fetch"
                /\ UNCHANGED result
           ELSE /\ all_articles' = TheFiltered(all1)
                /\ result' = TheUnique(all1)
                /\ pc' = "done"
                /\ articles' = ret
                /\ UNCHANGED <<call, page>>

\* requests.get(base_url, params={'page': page, 'per_page': 100}) answered by o
Respond(o) ==
    LET d    == ThePlan[call]
        step == FetchStep(o, d, page, articles)
    IN  /\ pc = "fetch"
        /\ requests' = Append(requests,
               [call |-> call, url |-> d.base_url, page |-> page,
                per_page |-> PER_PAGE, status |-> o.status, fault |-> o.fault,
                next_page |-> o.next_page, articles |-> o.articles])
        /\ IF step.again
           THEN /\ articles' = step.articles
                /\ page' = step.page
                /\ api_logs' = api_logs \o FetchLogs(o, d)
                /\ UNCHANGED <<pc, call, all_articles, returned, result, shown>>
           ELSE EndCall(step.articles, FetchMessages(o), FetchLogs(o, d))
        /\ UNCHANGED <<config, adaVars>>

\* status 200 with a next_page link
Get200Next ==
    /\ pc = "fetch"
    /\ page < MaxPages
    /\ Respond([status |-> 200, fault |-> FALSE, next_page |-> TRUE,
                articles |-> ServerPage(ThePlan[call], page)])

\* status 200 without a next_page link
Get200Last ==
    /\ pc = "fetch"
    /\ Respond([status |-> 200, fault |-> FALSE, next_page |-> FALSE,
                articles |-> ServerPage(ThePlan[call], page)])

\* any other status
GetError ==
    /\ pc = "fetch"
    /\ \E s \in ErrorStatuses :
          Respond([status |-> s, fault |-> FALSE, next_page |-> FALSE, articles |-> <<>>])

\* requests.exceptions.RequestException raised by requests.get
GetFault ==
    /\ pc = "fetch"
    /\ Respond([status |-> 0, fault |-> TRUE, next_page |-> FALSE, articles |-> <<>>])

Next == CallFetch \/ Get200Next \/ Get200Last \/ GetError \/ GetFault

Spec == Init /\ [][Next]_vars

----------------------------------------------------------------------------
(* fetch_articles_with_filters called with any list of brand ids *)

\* the argument selected_brands as a caller can pass it: ids of brands that
\* are loaded and ids that are not
BrandIdLists == {<<1>>, <<2>>, <<3>>, <<1, 2>>, <<1, 3>>}

InitPlanner ==
    /\ zd_email = "set"
    /\ zd_token = "set"
    /\ zd_subdomain = "foo"
    /\ published_only = FALSE
    /\ brands \in BrandLists
    /\ sections = Missing
    /\ selected_locales \in LocaleChoices
    /\ selected_brands \in BrandIdLists
    /\ selected_categories = <<>>
    /\ pc = "call"
    /\ call = 0
    /\ page = 0
    /\ articles = <<>>
    /\ all_articles = <<>>
    /\ requests = <<>>
    /\ returned = <<>>
    /\ result = <<>>
    /\ shown = <<>>
    /\ api_logs = <<>>
    /\ AdaIdle

SpecPlanner == InitPlanner /\ [][Next]_vars

----------------------------------------------------------------------------
(* The passes of lines 475-499 on arbitrary branch output *)

PassArticles ==
    [id : 1..3, draft : BOOLEAN, section_id : 0..2]

RECURSIVE SeqsUpTo(_, _)
SeqsUpTo(S, n) ==
    IF n = 0 THEN {<<>>}
    ELSE LET shorter == SeqsUpTo(S, n - 1)
         IN  shorter \cup {Append(q, x) : q \in {r \in shorter : Len(r) = n - 1}, x \in S}

\* <<selected_locales, selected_brands, selected_categories>>
PassSelections ==
    {<< <<"en">>, <<>>, <<>> >>, << <<"en">>, <<>>, <<10>> >>,
     << <<>>, <<1>>, <<10>> >>, << <<>>, <<>>, <<10>> >>}

\* the state at line 474: the fetch calls of the branch have returned `raw`
InitPasses ==
    /\ zd_email = "set"
    /\ zd_token = "set"
    /\ zd_subdomain = "foo"
    /\ published_only \in BOOLEAN
    /\ brands = Loaded(<<BrandA, BrandB>>)
    /\ sections \in SectionTables
    /\ \E sel \in PassSelections :
          /\ selected_locales = sel[1]
          /\ selected_brands = sel[2]
          /\ selected_categories = sel[3]
    /\ \E raw \in SeqsUpTo(PassArticles, MaxLen) :
          /\ returned = <<raw>>
          /\ articles = raw
          /\ all_articles = IF selected_locales = <<>> /\ selected_brands = <<>>
                            THEN filter_by_categories(raw, selected_categories, sections)
                            ELSE raw
    /\ pc = "fetched"
    /\ call = 1
    /\ page = 1
    /\ requests = <<>>
    /\ result = <<>>
    /\ shown = <<>>
    /\ api_logs = <<>>
    /\ AdaIdle

\* lines 475-499 in one step
PostPasses ==
    /\ pc = "fetched"
    /\ all_articles' = TheFiltered(all_articles)
    /\ result' = TheUnique(all_articles)
    /\ shown' = shown \o PassMessages(selected_locales, selected_brands,
                                       selected_categories, published_only, sections)
    /\ api_logs' = api_logs \o PassLogs(published_only)
    /\ pc' = "done"
    /\ UNCHANGED <<config, call, page, articles, requests, returned, adaVars>>

NextPasses == PostPasses

SpecPasses == InitPasses /\ [][NextPasses]_vars

----------------------------------------------------------------------------
(* filter_published_articles on arbitrary articles (the call of line 480) *)

\* articles with a draft flag and articles whose JSON has no 'draft' key
DraftArticles ==
    [id : 1..2] \cup [id : 1..2, draft : BOOLEAN]

\* the state at line 478: a locale fetch has returned `raw`
InitPublished ==
    /\ zd_email = "set"
    /\ zd_token = "set"
    /\ zd_subdomain = "foo"
    /\ published_only \in BOOLEAN
    /\ brands = Missing
    /\ sections = Missing
    /\ selected_locales = <<"en">>
    /\ selected_brands = <<>>
    /\ selected_categories = <<>>
    /\ \E raw \in SeqsUpTo(DraftArticles, MaxLen) :
          /\ returned = <<raw>>
          /\ articles = raw
          /\ all_articles = raw
    /\ pc = "publish"
    /\ call = 1
    /\ page = 1
    /\ requests = <<>>
    /\ result = <<>>
    /\ shown = <<>>
    /\ api_logs = <<>>
    /\ AdaIdle

\* lines 478-484: all_articles = filter_published_articles(all_articles),
\* with the log entry and the st.info that follow it
ApplyPublishedFilter ==
    /\ pc = "publish"
    /\ all_articles' = filter_published_articles(all_articles, published_only)
    /\ shown' = shown \o (IF published_only
                           THEN <<Shown("info", "filtered to published articles")>>
                           ELSE <<>>)
    /\ api_logs' = api_logs \o (IF published_only
                                 THEN <<Log("Filter Published", "INFO")>> ELSE <<>>)
    /\ pc' = "published"
    /\ UNCHANGED <<config, call, page, articles, requests, returned, result, adaVars>>

NextPublished == ApplyPublishedFilter

SpecPublished == InitPublished /\ [][NextPublished]_vars

----------------------------------------------------------------------------
(* filter_by_categories on arbitrary arguments (the call of line 473) *)

\* articles without a section_id, in a listed section, in an unlisted section
CatArticles ==
    [id : 1..2] \cup [id : 1..2, section_id : 1..3]

\* a table that lists section 1 twice, under two categories
SectionTableTwice ==
    <<[id |-> 1, category_id |-> 20], [id |-> 1, category_id |-> 10],
      [id |-> 2, category_id |-> 20]>>

CatTables == {Missing, Loaded(<<>>), Loaded(SectionTable), Loaded(SectionTableTwice)}

\* both callers (lines 470-473 and 475-476) pass a non-empty selection
CatSelections == {<<10>>, <<10, 20>>, <<30>>}

InitCategories ==
    /\ zd_email = "set"
    /\ zd_token = "set"
    /\ zd_subdomain = "foo"
    /\ published_only = FALSE
    /\ brands = Missing
    /\ sections \in CatTables
    /\ selected_locales = <<>>
    /\ selected_brands = <<>>
    /\ selected_categories \in CatSelections
    /\ articles \in SeqsUpTo(CatArticles, MaxLen)
    /\ pc = "filter"
    /\ call = 0
    /\ page = 0
    /\ all_articles = <<>>
    /\ requests = <<>>
    /\ returned = <<>>
    /\ result = <<>>
    /\ shown = <<>>
    /\ api_logs = <<>>
    /\ AdaIdle

\* all_articles = filter_by_categories(articles, selected_categories)
ApplyCategoryFilter ==
    /\ pc = "filter"
    /\ all_articles' = filter_by_categories(articles, selected_categories, sections)
    /\ shown' = shown \o filter_by_categories_warnings(selected_categories, sections)
    /\ pc' = "filtered"
    /\ UNCHANGED <<config, call, page, articles, requests, returned, result, adaVars,
                   api_logs>>

NextCategories == ApplyCategoryFilter

SpecCategories == InitCategories /\ [][NextCategories]_vars

----------------------------------------------------------------------------
(* format_articles_for_ada                                                 *)
(*                                                                         *)
(* A title or a body is a sequence of runs, Run(c, n) being the character  *)
(* c repeated n times; a locale or a language is a sequence of characters; *)
(* a URL is a sequence of tokens: "https:", "//", a host, path segments    *)
(* that begin with "/", "?", "#" and the text between them.                *)

Run(c, n) == [ch |-> c, n |-> n]

\* article.get(field, default)
Get(article, field, default) ==
    IF field \in DOMAIN article THEN article[field] ELSE default

\* bytes of one character in UTF-8: U+00E9 takes two, U+20AC three
Utf8Width(c) == IF c = "U+00E9" THEN 2 ELSE IF c = "U+20AC" THEN 3 ELSE 1

\* len(content.encode('utf-8'))
RECURSIVE Utf8Len(_)
Utf8Len(text) ==
    IF text = <<>> THEN 0
    ELSE Head(text).n * Utf8Width(Head(text).ch) + Utf8Len(Tail(text))

max_size_kb == 100

\* a variant that rejects content of exactly max_size_kb
check_article_size_strict(content) ==
    Utf8Len(content) < max_size_kb * 1024

\* lines 65-69; bytes / 1024 <= max_size_kb, the division being exact
check_article_size(content) ==
    Utf8Len(content) <= max_size_kb * 1024

\* converter.handle(zd_body): html2text drops the markup, keeps the text and
\* ends it with a blank line
handle(zd_body) ==
    LET text == SelectSeq(zd_body, LAMBDA r : ~r.markup)
    IN  [k \in 1..Len(text) |-> Run(text[k].ch, text[k].n)] \o <<Run("LF", 2)>>

NAME_MAX == 255

\* text[:k]
RECURSIVE Slice(_, _)
Slice(text, k) ==
    IF text = <<>> \/ k = 0 THEN <<>>
    ELSE IF Head(text).n <= k
         THEN <<Head(text)>> \o Slice(Tail(text), k - Head(text).n)
         ELSE <<Run(Head(text).ch, k)>>

\* str.lower() on the letters the inputs use
LowerChar(c) ==
    CASE c = "E" -> "e" [] c = "N" -> "n" [] c = "F" -> "f" [] c = "R" -> "r"
      [] c = "U" -> "u" [] c = "S" -> "s" [] OTHER -> c

lower(str) == [k \in 1..Len(str) |-> LowerChar(str[k])]

IsSpace(c) == c \in {" ", "TAB"}

RECURSIVE lstrip(_)
lstrip(str) == IF str # <<>> /\ IsSpace(Head(str)) THEN lstrip(Tail(str)) ELSE str

RECURSIVE rstrip(_)
rstrip(str) ==
    IF str # <<>> /\ IsSpace(str[Len(str)])
    THEN rstrip(SubSeq(str, 1, Len(str) - 1)) ELSE str

\* str.strip()
strip(str) == rstrip(lstrip(str))

\* a variant that takes the override as it was typed
ada_language_asTyped(override, zd_locale) ==
    IF override # <<>> /\ strip(override) # <<>>
    THEN strip(override)
    ELSE IF zd_locale # <<>> THEN lower(zd_locale) ELSE <<"e", "n">>

\* lines 719-725
ada_language(override, zd_locale) ==
    IF override # <<>> /\ strip(override) # <<>>
    THEN lower(strip(override))
    ELSE IF zd_locale # <<>> THEN lower(zd_locale) ELSE <<"e", "n">>

\* position of the first token t of url, 0 when there is none
IndexOf(url, t) ==
    IF \E k \in 1..Len(url) : url[k] = t
    THEN CHOOSE k \in 1..Len(url) : url[k] = t /\ \A j \in 1..(k - 1) : url[j] # t
    ELSE 0

PathTokens == {"/hc", "/42"}

\* urllib.parse.urlparse: the fragment follows the first "#", the query the
\* first "?" before it, the host runs from "//" to the path
urlparse(url) ==
    LET h        == IndexOf(url, "#")
        noFrag   == IF h = 0 THEN url ELSE SubSeq(url, 1, h - 1)
        q        == IndexOf(noFrag, "?")
        noQuery  == IF q = 0 THEN noFrag ELSE SubSeq(noFrag, 1, q - 1)
        hasSch   == noQuery # <<>> /\ noQuery[1] = "https:"
        afterSch == IF hasSch THEN Tail(noQuery) ELSE noQuery
        hasLoc   == afterSch # <<>> /\ afterSch[1] = "//"
        afterSl  == IF hasLoc THEN Tail(afterSch) ELSE afterSch
        p        == IF \E k \in 1..Len(afterSl) : afterSl[k] \in PathTokens
                    THEN CHOOSE k \in 1..Len(afterSl) :
                            /\ afterSl[k] \in PathTokens
                            /\ \A j \in 1..(k - 1) : afterSl[j] \notin PathTokens
                    ELSE Len(afterSl) + 1
    IN  [scheme   |-> IF hasSch THEN <<"https">> ELSE <<>>,
         netloc   |-> IF hasLoc THEN SubSeq(afterSl, 1, p - 1) ELSE <<>>,
         path     |-> IF hasLoc THEN SubSeq(afterSl, p, Len(afterSl)) ELSE afterSl,
         query    |-> IF q = 0 THEN <<>> ELSE SubSeq(noFrag, q + 1, Len(noFrag)),
         fragment |-> IF h = 0 THEN <<>> ELSE SubSeq(url, h + 1, Len(url))]

\* a variant that keeps the path and forgets the query and the fragment
corrected_url_pathOnly(article) ==
    LET zd_html_url == Get(article, "html_url", <<>>)
        brand_base_url == Get(article, "_brand_url", <<>>)
    IN  IF brand_base_url # <<>> /\ zd_html_url # <<>>
        THEN brand_base_url \o urlparse(zd_html_url).path
        ELSE zd_html_url

\* lines 727-742
corrected_url(article) ==
    LET zd_html_url == Get(article, "html_url", <<>>)
        brand_base_url == Get(article, "_brand_url", <<>>)
        parsed_url == urlparse(zd_html_url)
    IN  IF brand_base_url # <<>> /\ zd_html_url # <<>>
        THEN brand_base_url \o parsed_url.path
             \o (IF parsed_url.query # <<>> THEN <<"?">> \o parsed_url.query ELSE <<>>)
             \o (IF parsed_url.fragment # <<>> THEN <<"#">> \o parsed_url.fragment ELSE <<>>)
        ELSE zd_html_url

\* lines 713-717 and 744-746: the text handed to the size gate
markdown_content(article) == handle(Get(article, "body", <<>>))

\* a variant that truncates the name one character late
ada_article_longName(article, ks, override) ==
    [id       |-> <<"zd_", ToString(article.id), "-">> \o Get(article, "locale", <<"e", "n">>),
     name     |-> Slice(Get(article, "title", <<>>), NAME_MAX + 1),
     content  |-> markdown_content(article),
     knowledge_source_id |-> ks,
     url      |-> corrected_url(article),
     tag_ids  |-> <<>>,
     language |-> ada_language(override, Get(article, "locale", <<"e", "n">>))]

\* a variant whose id leaves the locale out
ada_article_idOnly(article, ks, override) ==
    [id       |-> <<"zd_", ToString(article.id)>>,
     name     |-> Slice(Get(article, "title", <<>>), NAME_MAX),
     content  |-> markdown_content(article),
     knowledge_source_id |-> ks,
     url      |-> corrected_url(article),
     tag_ids  |-> <<>>,
     language |-> ada_language(override, Get(article, "locale", <<"e", "n">>))]

\* lines 753-761
ada_article(article, ks, override) ==
    [id       |-> <<"zd_", ToString(article.id), "-">> \o Get(article, "locale", <<"e", "n">>),
     name     |-> Slice(Get(article, "title", <<>>), NAME_MAX),
     content  |-> markdown_content(article),
     knowledge_source_id |-> ks,
     url      |-> corrected_url(article),
     tag_ids  |-> <<>>,
     language |-> ada_language(override, Get(article, "locale", <<"e", "n">>))]

\* lines 712-763: the loop, with its two locals
RECURSIVE FormatLoop(_, _, _)
FormatLoop(arts, ks, override) ==
    IF arts = <<>> THEN [formatted_articles |-> <<>>, skipped_count |-> 0]
    ELSE LET rest == FormatLoop(Tail(arts), ks, override)
         IN  IF ~check_article_size(markdown_content(Head(arts)))
             THEN [formatted_articles |-> rest.formatted_articles,
                   skipped_count      |-> rest.skipped_count + 1]
             ELSE [formatted_articles |->
                       <<ada_article(Head(arts), ks, override)>> \o rest.formatted_articles,
                   skipped_count      |-> rest.skipped_count]

\* lines 742 and 750: the entries the loop writes for one article
ArticleLogs(article) ==
    (IF Get(article, "_brand_url", <<>>) # <<>> /\ Get(article, "html_url", <<>>) # <<>>
     THEN <<Log("URL Correction", "INFO")>> ELSE <<>>)
    \o (IF ~check_article_size(markdown_content(article))
        THEN <<Log("Format Articles", "WARNING")>> ELSE <<>>)

\* lines 705, 742, 750, 766: the entries of one format_articles_for_ada call
RECURSIVE LoopLogs(_)
LoopLogs(arts) ==
    IF arts = <<>> THEN <<>>
    ELSE ArticleLogs(Head(arts)) \o LoopLogs(Tail(arts))

FormatLogs(arts) ==
    <<Log("Format Articles", "INFO")>> \o LoopLogs(arts)
    \o <<Log("Format Articles", "SUCCESS")>>

\* lines 703-767: the returned dict has the one key 'articles'
format_articles_for_ada(arts, ks, override) ==
    [articles |-> FormatLoop(arts, ks, override).formatted_articles]

----------------------------------------------------------------------------
(* format_articles_for_ada on the batches of lines 1318 and 1336 *)

\* the state of the fetch, apart from pc and shown
fetchVars == <<config, call, page, articles, all_articles, requests, returned, result>>

\* no fetch is under way
FetchIdle ==
    /\ zd_email = "set"
    /\ zd_token = "set"
    /\ zd_subdomain = "foo"
    /\ published_only = FALSE
    /\ brands = Missing
    /\ sections = Missing
    /\ selected_locales = <<>>
    /\ selected_brands = <<>>
    /\ selected_categories = <<>>
    /\ call = 0
    /\ page = 0
    /\ articles = <<>>
    /\ all_articles = <<>>
    /\ requests = <<>>
    /\ returned = <<>>
    /\ result = <<>>
    /\ shown = <<>>
    /\ api_logs = <<>>

Text(c, n) == [ch |-> c, n |-> n, markup |-> FALSE]
Markup(t)  == [ch |-> t, n |-> 1, markup |-> TRUE]

\* <p>c...c</p>
ParaOf(c, n) == <<Markup("<p>"), Text(c, n), Markup("</p>")>>

\* bodies whose markdown is far below, just below, at and just above the
\* limit, in one-byte and in two-byte characters; the empty body
Bodies ==
    LET limit == max_size_kb * 1024 IN
    {<<>>, <<Markup("<p>"), Text("h", 1), Text("i", 1), Markup("</p>")>>}
    \cup {ParaOf("a", n) : n \in {limit - 3, limit - 2, limit - 1}}
    \cup {ParaOf("U+00E9", n) : n \in {(limit \div 2) - 1, limit \div 2}}

Titles ==
    {<<>>, <<Run("T", 1)>>, <<Run("T", NAME_MAX)>>, <<Run("T", NAME_MAX + 1)>>,
     <<Run("T", 200), Run("x", 100)>>}

Locales == {<<>>, <<"e", "n">>, <<"E", "N", "-", "U", "S">>, <<"f", "r">>}

\* the URL made of a host, a path, "?" + query and "#" + fragment
HtmlUrl(c) ==
    <<"https:", "//", c.host>> \o c.path
       \o (IF c.hasq THEN <<"?">> \o c.query ELSE <<>>)
       \o (IF c.hasf THEN <<"#">> \o c.fragment ELSE <<>>)

UrlComponents ==
    {c \in [host : {"foo.zendesk.com"}, path : {<<>>, <<"/hc", "/42">>},
            hasq : BOOLEAN, query : {<<>>, <<"q=1">>},
            hasf : BOOLEAN, fragment : {<<>>, <<"top">>, <<"a", "?", "b">>}] :
        /\ (~c.hasq => c.query = <<>>)
        /\ (~c.hasf => c.fragment = <<>>)}

\* Scenario A of the specification: id 42, title 'T', body '<p>hi</p>'
ScenarioA ==
    [id |-> 42, title |-> <<Run("T", 1)>>,
     body |-> <<Markup("<p>"), Text("h", 1), Text("i", 1), Markup("</p>")>>,
     html_url |-> <<"https:", "//", "foo.zendesk.com", "/hc", "/42">>,
     locale |-> <<"e", "n">>, draft |-> FALSE]

\* the article d without its field f
Without(d, f) == [g \in (DOMAIN d) \ {f} |-> d[g]]

\* Scenario A with one field varied or left out, unannotated and annotated
FieldArticles ==
    LET urls == {Without(ScenarioA, "html_url")}
                  \cup {[ScenarioA EXCEPT !.html_url = u] :
                           u \in {<<>>} \cup {HtmlUrl(c) : c \in UrlComponents}}
    IN  urls
        \cup {[_brand_url |-> b] @@ a :
                 a \in urls, b \in {get_brand_base_url(BrandA), get_brand_base_url(BrandB)}}
        \cup {Without(ScenarioA, "body")}
        \cup {[ScenarioA EXCEPT !.body = b] : b \in Bodies}
        \cup {Without(ScenarioA, "title")}
        \cup {[ScenarioA EXCEPT !.title = t] : t \in Titles}
        \cup {Without(ScenarioA, "locale")}
        \cup {[ScenarioA EXCEPT !.locale = l] : l \in Locales}

\* articles of two ids, of exactly the largest size kept or one byte more
BatchArticles ==
    {[id |-> n, title |-> <<Run("T", 1)>>, body |-> b, locale |-> <<"e", "n">>,
      html_url |-> <<"https:", "//", "foo.zendesk.com", "/hc", "/42">>] :
        n \in 1..2,
        b \in {ParaOf("a", max_size_kb * 1024 - 2), ParaOf("a", max_size_kb * 1024 - 1)}}

Batches == SeqsUpTo(BatchArticles, MaxLen) \cup {<<a>> : a \in FieldArticles}

\* None or '', blank, and languages with and without padding and capitals
Overrides == {<<>>, <<" ", "TAB">>, <<"f", "r">>, <<" ", "F", "R", " ">>, <<"E", "S">>}

KnowledgeSources == {"ks1", "ks2"}

InitFormat ==
    /\ FetchIdle
    /\ pc = "format"
    /\ fetched_articles \in Batches
    /\ knowledge_source_id \in KnowledgeSources
    /\ override_language \in Overrides
    /\ formatted_articles = [articles |-> <<>>]
    /\ skipped_count = 0
    /\ UploadIdle

\* formatted_articles = format_articles_for_ada(fetched_articles, id, override)
FormatArticles ==
    /\ pc = "format"
    /\ formatted_articles' =
          format_articles_for_ada(fetched_articles, knowledge_source_id, override_language)
    /\ skipped_count' =
          FormatLoop(fetched_articles, knowledge_source_id, override_language).skipped_count
    /\ api_logs' = api_logs \o FormatLogs(fetched_articles)
    /\ pc' = "formatted"
    /\ UNCHANGED <<fetchVars, shown, fetched_articles, knowledge_source_id,
                   override_language, uploadVars>>

NextFormat == FormatArticles

SpecFormat == InitFormat /\ [][NextFormat]_vars

----------------------------------------------------------------------------
(* upload_articles_to_ada as a state machine: one step per POST *)

Max429    == 2     \* the service answers 429 at most this often to one article
MaxUpload == 2     \* articles in the batch to upload

\* time.sleep arguments, in milliseconds
RATE_LIMIT_DELAY == 100
RATE_LIMIT_COOLDOWN == 60000

SuccessStatuses == {200, 201}
OtherStatuses   == {202, 400, 500}

\* a variant that leaves a rejected article out of the error count
UploadStep_uncounted(o, sc, ec) ==
    IF o.fault
    THEN [success_count |-> sc, error_count |-> ec + 1, again |-> FALSE,
          sleeps |-> <<>>, shown |-> <<Shown("error", "network error uploading")>>]
    ELSE IF o.status \in {200, 201}
    THEN IF o.decodable
         THEN [success_count |-> sc + 1, error_count |-> ec, again |-> FALSE,
               sleeps |-> <<RATE_LIMIT_DELAY>>,
               shown |-> <<Shown("success", "uploaded article")>>]
         ELSE [success_count |-> sc + 1, error_count |-> ec + 1, again |-> FALSE,
               sleeps |-> <<RATE_LIMIT_DELAY>>,
               shown |-> <<Shown("error", "network error uploading")>>]
    ELSE IF o.status = 429
    THEN [success_count |-> sc, error_count |-> ec, again |-> TRUE,
          sleeps |-> <<RATE_LIMIT_DELAY, RATE_LIMIT_COOLDOWN>>,
          shown |-> <<Shown("warning", "rate limited")>>]
    ELSE [success_count |-> sc, error_count |-> ec, again |-> FALSE,
          sleeps |-> <<RATE_LIMIT_DELAY>>,
          shown |-> <<Shown("error", "failed to upload article")>>]

\* a variant that gives a rate-limited article up and takes the next one
UploadStep_giveUpOn429(o, sc, ec) ==
    IF o.fault
    THEN [success_count |-> sc, error_count |-> ec + 1, again |-> FALSE,
          sleeps |-> <<>>, shown |-> <<Shown("error", "network error uploading")>>]
    ELSE IF o.status \in {200, 201}
    THEN IF o.decodable
         THEN [success_count |-> sc + 1, error_count |-> ec, again |-> FALSE,
               sleeps |-> <<RATE_LIMIT_DELAY>>,
               shown |-> <<Shown("success", "uploaded article")>>]
         ELSE [success_count |-> sc + 1, error_count |-> ec + 1, again |-> FALSE,
               sleeps |-> <<RATE_LIMIT_DELAY>>,
               shown |-> <<Shown("error", "network error uploading")>>]
    ELSE IF o.status = 429
    THEN [success_count |-> sc, error_count |-> ec, again |-> FALSE,
          sleeps |-> <<RATE_LIMIT_DELAY, RATE_LIMIT_COOLDOWN>>,
          shown |-> <<Shown("warning", "rate limited")>>]
    ELSE [success_count |-> sc, error_count |-> ec + 1, again |-> FALSE,
          sleeps |-> <<RATE_LIMIT_DELAY>>,
          shown |-> <<Shown("error", "failed to upload article")>>]

\* a variant that sends the article again after a network fault
UploadStep_faultRetried(o, sc, ec) ==
    IF o.fault
    THEN [success_count |-> sc, error_count |-> ec + 1, again |-> TRUE,
          sleeps |-> <<>>, shown |-> <<Shown("error", "network error uploading")>>]
    ELSE IF o.status \in {200, 201}
    THEN IF o.decodable
         THEN [success_count |-> sc + 1, error_count |-> ec, again |-> FALSE,
               sleeps |-> <<RATE_LIMIT_DELAY>>,
               shown |-> <<Shown("success", "uploaded article")>>]
         ELSE [success_count |-> sc + 1, error_count |-> ec + 1, again |-> FALSE,
               sleeps |-> <<RATE_LIMIT_DELAY>>,
               shown |-> <<Shown("error", "network error uploading")>>]
    ELSE IF o.status = 429
    THEN [success_count |-> sc, error_count |-> ec, again |-> TRUE,
          sleeps |-> <<RATE_LIMIT_DELAY, RATE_LIMIT_COOLDOWN>>,
          shown |-> <<Shown("warning", "rate limited")>>]
    ELSE [success_count |-> sc, error_count |-> ec + 1, again |-> FALSE,
          sleeps |-> <<RATE_LIMIT_DELAY>>,
          shown |-> <<Shown("error", "failed to upload article")>>]

\* lines 797-824: one pass of the `while True` body on the response o; a
\* 200 or 201 whose body response.json() cannot decode raises a
\* RequestException after success_count was incremented
UploadStep(o, sc, ec) ==
    IF o.fault
    THEN [success_count |-> sc, error_count |-> ec + 1, again |-> FALSE,
          sleeps |-> <<>>, shown |-> <<Shown("error", "network error uploading")>>]
    ELSE IF o.status \in {200, 201}
    THEN IF o.decodable
         THEN [success_count |-> sc + 1, error_count |-> ec, again |-> FALSE,
               sleeps |-> <<RATE_LIMIT_DELAY>>,
               shown |-> <<Shown("success", "uploaded article")>>]
         ELSE [success_count |-> sc + 1, error_count |-> ec + 1, again |-> FALSE,
               sleeps |-> <<RATE_LIMIT_DELAY>>,
               shown |-> <<Shown("error", "network error uploading")>>]
    ELSE IF o.status = 429
    THEN [success_count |-> sc, error_count |-> ec, again |-> TRUE,
          sleeps |-> <<RATE_LIMIT_DELAY, RATE_LIMIT_COOLDOWN>>,
          shown |-> <<Shown("warning", "rate limited")>>]
    ELSE [success_count |-> sc, error_count |-> ec + 1, again |-> FALSE,
          sleeps |-> <<RATE_LIMIT_DELAY>>,
          shown |-> <<Shown("error", "failed to upload article")>>]

\* a fetched article small enough to pass the size gate
UploadArticle(n) ==
    [id |-> n, title |-> <<Run("T", 1)>>, body |-> ParaOf("a", 2),
     locale |-> <<"e", "n">>,
     html_url |-> <<"https:", "//", "foo.zendesk.com", "/hc", "/42">>]

UploadBatches == {[k \in 1..n |-> UploadArticle(k)] : n \in 0..MaxUpload}

\* the state at line 1337: the batch has been transformed
InitUpload ==
    /\ FetchIdle
    /\ pc = "upload"
    /\ fetched_articles \in UploadBatches
    /\ knowledge_source_id = "ks1"
    /\ override_language = <<>>
    /\ formatted_articles = format_articles_for_ada(fetched_articles, "ks1", <<>>)
    /\ skipped_count = 0
    /\ ada_subdomain \in Credentials
    /\ ada_api_token \in Credentials
    /\ upload_i = 0
    /\ success_count = 0
    /\ error_count = 0
    /\ posts = <<>>
    /\ sleeps = <<>>
    /\ summary = NoSummary

transformVars == <<fetched_articles, knowledge_source_id, override_language,
                   formatted_articles, skipped_count>>

\* lines 795, 804, 809, 815, 823: the entries written around one POST
UploadLogs(o) ==
    <<Log("Upload Article", "INFO"),
      Log("Upload Article",
          IF o.fault \/ ~o.decodable THEN "ERROR"
          ELSE IF o.status \in SuccessStatuses THEN "SUCCESS"
          ELSE IF o.status = 429 THEN "WARNING"
          ELSE "ERROR")>>

\* lines 826-827: the summary dict and the entry that carries it
Summary(sc, ec, arts) ==
    [present |-> TRUE, success_count |-> sc, error_count |-> ec,
     total_articles |-> Len(arts)]

\* lines 771-790: the credential check and the way to the first POST; an
\* empty batch runs the loop zero times and reaches line 826 at once
UploadStart ==
    /\ pc = "upload"
    /\ IF ada_subdomain = "" \/ ada_api_token = ""
       THEN /\ shown' = Append(shown, Shown("error", "Ada credentials are required"))
            /\ pc' = "uploaded"
            /\ UNCHANGED <<upload_i, api_logs, summary>>
       ELSE /\ IF formatted_articles.articles = <<>>
               THEN /\ pc' = "uploaded"
                    /\ summary' = Summary(success_count, error_count, <<>>)
                    /\ api_logs' = api_logs \o <<Log("Upload Articles", "INFO"),
                                                 Log("Upload Articles", "SUCCESS")>>
                    /\ UNCHANGED upload_i
               ELSE /\ pc' = "post"
                    /\ upload_i' = 1
                    /\ api_logs' = Append(api_logs, Log("Upload Articles", "INFO"))
                    /\ UNCHANGED summary
            /\ UNCHANGED shown
    /\ UNCHANGED <<fetchVars, transformVars, ada_subdomain, ada_api_token,
                   success_count, error_count, posts, sleeps>>

\* 429 responses the article being sent has had
Retries == Cardinality({k \in 1..Len(posts) :
                          posts[k].upload_i = upload_i /\ posts[k].status = 429})

\* a variant that leaves the loop after the first article
LoopDone_afterFirst(n, arts) == n >= 1

\* line 790: `for i, article in enumerate(articles, 1)` has no article after
\* the n-th
LoopDone(n, arts) == n >= Len(arts)

\* requests.post(endpoint, json=[article]) answered by o
Post(o) ==
    LET article == formatted_articles.articles[upload_i]
        step    == UploadStep(o, success_count, error_count)
    IN  /\ pc = "post"
        /\ posts' = Append(posts, [upload_i |-> upload_i, id |-> article.id,
                                   payload |-> <<article>>,
                                   status |-> o.status, fault |-> o.fault,
                                   decodable |-> o.decodable])
        /\ success_count' = step.success_count
        /\ error_count' = step.error_count
        /\ sleeps' = sleeps \o [k \in 1..Len(step.sleeps) |->
                                   [upload_i |-> upload_i, ms |-> step.sleeps[k]]]
        /\ shown' = shown \o step.shown
        /\ IF step.again
           THEN /\ api_logs' = api_logs \o UploadLogs(o)
                /\ UNCHANGED <<pc, upload_i, summary>>
           ELSE IF ~LoopDone(upload_i, formatted_articles.articles)
                THEN /\ upload_i' = upload_i + 1
                     /\ api_logs' = api_logs \o UploadLogs(o)
                     /\ UNCHANGED <<pc, summary>>
                ELSE /\ pc' = "uploaded"
                     /\ summary' = Summary(step.success_count, step.error_count,
                                            formatted_articles.articles)
                     /\ api_logs' = api_logs \o UploadLogs(o)
                                               \o <<Log("Upload Articles", "SUCCESS")>>
                     /\ UNCHANGED upload_i
        /\ UNCHANGED <<fetchVars, transformVars, ada_subdomain, ada_api_token>>

\* status 200 or 201 with a JSON body
PostSuccess ==
    /\ pc = "post"
    /\ \E s \in SuccessStatuses :
          Post([status |-> s, fault |-> FALSE, decodable |-> TRUE])

\* status 200 or 201 with a body that is not JSON
PostSuccessUndecodable ==
    /\ pc = "post"
    /\ \E s \in SuccessStatuses :
          Post([status |-> s, fault |-> FALSE, decodable |-> FALSE])

\* status 429
Post429 ==
    /\ pc = "post"
    /\ Retries < Max429
    /\ Post([status |-> 429, fault |-> FALSE, decodable |-> TRUE])

\* any other status
PostOther ==
    /\ pc = "post"
    /\ \E s \in OtherStatuses :
          Post([status |-> s, fault |-> FALSE, decodable |-> TRUE])

\* requests.exceptions.RequestException raised by requests.post
PostFault ==
    /\ pc = "post"
    /\ Post([status |-> 0, fault |-> TRUE, decodable |-> FALSE])

NextUpload ==
    UploadStart \/ PostSuccess \/ PostSuccessUndecodable \/ Post429 \/ PostOther \/ PostFault

SpecUpload == InitUpload /\ [][NextUpload]_vars

\* a run of the fetch or a run of the upload: the two operations that talk
\* to a remote service
InitRemote == Init \/ InitUpload

NextRemote == Next \/ NextUpload

SpecRemote == InitRemote /\ [][NextRemote]_vars

\* every requests.post carries timeout=30 (line 798) and the sleeps are
\* finite, so a started upload always takes its next step
SpecUploadLive == InitUpload /\ [][NextUpload]_vars /\ WF_vars(NextUpload)

----------------------------------------------------------------------------
(* Properties *)

NoFilters ==
    selected_locales = <<>> /\ selected_brands = <<>> /\ selected_categories = <<>>

HasCredentials == zd_email # "" /\ zd_token # ""

\* C1: with no locale, no brand and no category selected, whatever
\* published_only is, fetch_articles_with_filters never has a GET in flight,
\* issues no request and returns the empty list.
C1_NoFiltersNoFetch ==
    NoFilters => /\ pc \in {"call", "done"}
                 /\ requests = <<>>
                 /\ result = <<>>

\* the call has returned for an empty selection although credentials are set
C1_Witness ==
    NoFilters /\ HasCredentials /\ published_only /\ pc = "done"

\* C7: without a Zendesk email or without an API token the function returns
\* the empty list and issues no request, whatever is selected.
C7_NoCredentialsNoFetch ==
    ~HasCredentials => /\ pc \in {"call", "done"}
                       /\ requests = <<>>
                       /\ result = <<>>

\* the call has returned with an email but no token and a full selection
C7_Witness ==
    /\ zd_email # "" /\ zd_token = ""
    /\ selected_locales # <<>> /\ selected_brands # <<>> /\ selected_categories # <<>>
    /\ pc = "done"

Ids(s) == {s[i].id : i \in 1..Len(s)}

\* the positions of s that hold the first article of their id among the
\* positions in I
FirstOf(s, I) == {i \in I : \A j \in I : j < i => s[j].id # s[i].id}

\* the rank of position i within the set of positions I
RankIn(I, i) == Cardinality({j \in I : j <= i})

\* s is what is left of t when only the positions in I are kept, in order
KeepsExactly(s, t, I) ==
    /\ Len(s) = Cardinality(I)
    /\ \A i \in I : s[RankIn(I, i)] = t[i]

\* C2: the de-duplication pass returns a list no longer than its input, with
\* no id twice and every id of the input, made of exactly the first
\* occurrence of each id in the input's order.
C2_DedupeFirstOccurrences ==
    pc = "done" =>
        LET n == Len(all_articles) IN
        /\ Len(result) <= n
        /\ \A k, l \in 1..Len(result) : k # l => result[k].id # result[l].id
        /\ Ids(result) = Ids(all_articles)
        /\ KeepsExactly(result, all_articles, FirstOf(all_articles, 1..n))

\* a list of three in which the second article repeats the id of the first
\* with different content has been de-duplicated
C2_Witness ==
    /\ pc = "done" /\ ~published_only
    /\ Len(all_articles) = 3 /\ Len(result) = 2
    /\ all_articles[1].id = all_articles[2].id
    /\ all_articles[1] # all_articles[2]
    /\ result[1] = all_articles[1]

\* the category filter applies to an article (a selection and a non-empty table)
CategoryFilterOn ==
    selected_categories # <<>> /\ sections.present /\ sections.value # <<>>

\* the article's section is in the table with a selected category
InSelectedCategory(a) ==
    /\ "section_id" \in DOMAIN a
    /\ \E k \in 1..Len(sections.value) :
          /\ sections.value[k].id = a.section_id
          /\ sections.value[k].category_id \in Range(selected_categories)

\* the article survives the category filter and the published filter
Survives(a) ==
    /\ CategoryFilterOn => InSelectedCategory(a)
    /\ published_only => ("draft" \in DOMAIN a /\ a.draft = FALSE)

\* C6: with published_only the drafts are dropped after the category filter
\* and before de-duplication: the result holds no draft and is made of the
\* first published (and category-matching) occurrence of each id, so a
\* published article is kept although an earlier draft has its id; a list
\* [draft, published, published] of distinct ids gives exactly 2 articles.
C6_DraftsDroppedBeforeDedupe ==
    (pc = "done" /\ published_only) =>
        LET raw  == returned[1]
            kept == {i \in 1..Len(raw) : Survives(raw[i])}
        IN  /\ \A k \in 1..Len(result) : result[k].draft = FALSE
            /\ KeepsExactly(result, raw, FirstOf(raw, kept))
            /\ ( /\ ~CategoryFilterOn
                 /\ Len(raw) = 3
                 /\ Cardinality(Ids(raw)) = 3
                 /\ raw[1].draft /\ ~raw[2].draft /\ ~raw[3].draft )
               => Len(result) = 2

\* a draft followed by a published article of the same id: the published one
\* is returned
C6_Witness ==
    /\ pc = "done" /\ published_only /\ ~CategoryFilterOn
    /\ Len(returned[1]) = 3
    /\ returned[1][1].draft /\ ~returned[1][2].draft
    /\ returned[1][1].id = returned[1][2].id
    /\ result[1] = returned[1][2]

----------------------------------------------------------------------------
(* The decision table of the planner, stated on the selection alone *)

MainBase == <<"https://", zd_subdomain, ".zendesk.com">>

BrandOf(id) == CHOOSE b \in Range(brands.value) : b.id = id

BrandBase(b) ==
    IF "host_mapping" \in DOMAIN b /\ b.host_mapping # ""
    THEN <<"https://", b.host_mapping>>
    ELSE <<"https://", b.subdomain, ".zendesk.com">>

\* the URL of the k-th fetch of the brand+locale cross product, brands outer
CrossUrl(k) ==
    LET nl == Len(selected_locales) IN
    BrandBase(BrandOf(selected_brands[((k - 1) \div nl) + 1]))
        \o <<"/api/v2/help_center/", selected_locales[((k - 1) % nl) + 1], "/articles">>

\* the endpoints the decision table names for the selection, in order
TableUrls ==
    IF selected_brands # <<>> /\ selected_locales # <<>>
    THEN [k \in 1..(Len(selected_brands) * Len(selected_locales)) |-> CrossUrl(k)]
    ELSE IF selected_brands # <<>>
    THEN [k \in 1..Len(selected_brands) |->
             BrandBase(BrandOf(selected_brands[k])) \o <<"/api/v2/help_center/articles">>]
    ELSE IF selected_locales # <<>>
    THEN [k \in 1..Len(selected_locales) |->
             MainBase \o <<"/api/v2/help_center/", selected_locales[k], "/articles">>]
    ELSE IF selected_categories # <<>>
    THEN <<MainBase \o <<"/api/v2/help_center/articles">>>>
    ELSE <<>>

\* the fetches appear in the log in the order of their ordinals
CallsInOrder ==
    \A i \in 1..(Len(requests) - 1) : requests[i].call <= requests[i + 1].call

CallsMade == {requests[i].call : i \in 1..Len(requests)}

BrandFields == {"_brand_name", "_brand_id", "_brand_subdomain", "_brand_url"}

\* an article without the annotations of the brand-scoped fetches
Strip(a) == [f \in (DOMAIN a) \ BrandFields |-> a[f]]

StripAll(q) == [k \in 1..Len(q) |-> Strip(q[k])]

Ok200(r) == ~r.fault /\ r.status = 200

\* the articles of the pages that fetch c received among the first n requests
RECURSIVE PagesUpTo(_, _)
PagesUpTo(c, n) ==
    IF n = 0 THEN <<>>
    ELSE PagesUpTo(c, n - 1)
         \o (IF requests[n].call = c /\ Ok200(requests[n])
             THEN requests[n].articles ELSE <<>>)

PagesOf(c) == PagesUpTo(c, Len(requests))

\* C3: with brands and locales both selected the planner fetches exactly the
\* cross product, brands outer and locales inner, each pair from
\* {brandBaseUrl}/api/v2/help_center/{locale}/articles, and nothing else;
\* when every response is a single page there are exactly
\* |brands| * |locales| GET calls.
C3_CrossProduct ==
    (HasCredentials /\ selected_brands # <<>> /\ selected_locales # <<>>) =>
        LET n == Len(selected_brands) * Len(selected_locales) IN
        /\ \A i \in 1..Len(requests) :
              /\ requests[i].call \in 1..n
              /\ requests[i].url = CrossUrl(requests[i].call)
        /\ CallsInOrder
        /\ pc = "done" => CallsMade = 1..n
        /\ (pc = "done" /\ \A i \in 1..Len(requests) : requests[i].page = 1)
              => Len(requests) = n

\* two brands and two locales fetched with single-page responses: four GETs,
\* the second one for the first brand and the second locale
C3_Witness ==
    /\ pc = "done"
    /\ selected_brands = <<1, 2>> /\ selected_locales = <<"en", "fr">>
    /\ Len(requests) = 4
    /\ requests[2].url = <<"https://", "help.bar.com", "/api/v2/help_center/", "fr", "/articles">>
    /\ requests[3].url = <<"https://", "foo", ".zendesk.com", "/api/v2/help_center/", "en", "/articles">>

\* C4: for a selection that is not empty exactly the branch of the decision
\* table runs: every request goes to the endpoint the table names for its
\* fetch, the finished run has made one fetch per table entry, and the
\* categories-only branch returns only articles of the selected categories.
C4_DecisionTable ==
    (HasCredentials /\ ~NoFilters) =>
        LET table == TableUrls IN
        /\ \A i \in 1..Len(requests) :
              /\ requests[i].call \in 1..Len(table)
              /\ requests[i].url = table[requests[i].call]
        /\ CallsInOrder
        /\ pc = "done" => CallsMade = 1..Len(table)
        /\ ( /\ pc = "done" /\ CategoryFilterOn
             /\ selected_brands = <<>> /\ selected_locales = <<>> )
           => /\ Len(requests) >= 1
              /\ \A k \in 1..Len(result) : InSelectedCategory(result[k])

\* the categories-only branch has fetched two pages from the main subdomain
\* and the category filter has dropped one of the two articles
C4_Witness ==
    /\ pc = "done" /\ CategoryFilterOn /\ ~published_only
    /\ selected_brands = <<>> /\ selected_locales = <<>>
    /\ Len(requests) = 2
    /\ requests[1].url = <<"https://", "foo", ".zendesk.com", "/api/v2/help_center/articles">>
    /\ Len(returned[1]) = 2 /\ Len(result) = 1

\* the articles of every page received, in the order received
Served == Concat([i \in 1..Len(requests) |->
                    IF Ok200(requests[i]) THEN requests[i].articles ELSE <<>>])

\* C5: with categories selected together with brands or locales (and a
\* non-empty section table) every returned article was served by an endpoint
\* of the brand/locale branch and has a section of a selected category, and
\* every served article that passes the filters is in the result by id.
C5_CategoryPostPass ==
    ( /\ pc = "done" /\ HasCredentials /\ CategoryFilterOn
      /\ (selected_brands # <<>> \/ selected_locales # <<>>) ) =>
        /\ \A k \in 1..Len(result) :
              /\ InSelectedCategory(result[k])
              /\ \E i \in 1..Len(requests) :
                    /\ Ok200(requests[i])
                    /\ requests[i].url = TableUrls[requests[i].call]
                    /\ \E j \in 1..Len(requests[i].articles) :
                          requests[i].articles[j] = Strip(result[k])
        /\ \A j \in 1..Len(Served) :
              Survives(Served[j]) => Served[j].id \in Ids(result)

\* a locale fetch of two pages whose second article is in no selected
\* category: only the first one is returned
C5_Witness ==
    /\ pc = "done" /\ CategoryFilterOn /\ ~published_only
    /\ selected_brands = <<>> /\ selected_locales = <<"en">>
    /\ Len(Served) = 2 /\ ~InSelectedCategory(Served[2])
    /\ result = <<Served[1]>>

\* C8: a paginated fetch asks for pages 1, 2, 3, ... with per_page=100; page
\* n+1 is asked for only after page n came back 200 with a next page, a 200
\* without a next page ends the fetch, and the fetch returns the pages it
\* received, concatenated in page order.
C8_Pagination ==
    /\ \A i \in 1..Len(requests) :
          /\ requests[i].per_page = 100
          /\ IF i > 1 /\ requests[i - 1].call = requests[i].call
             THEN /\ requests[i].page = requests[i - 1].page + 1
                  /\ Ok200(requests[i - 1]) /\ requests[i - 1].next_page
             ELSE requests[i].page = 1
          /\ (Ok200(requests[i]) /\ ~requests[i].next_page) =>
                /\ i < Len(requests) => requests[i + 1].call # requests[i].call
                /\ Len(returned) >= requests[i].call
    /\ \A c \in 1..Len(returned) : StripAll(returned[c]) = PagesOf(c)
    /\ pc = "fetch" => StripAll(articles) = PagesOf(call)

\* a fetch of two pages has returned the two articles in page order
C8_Witness ==
    /\ Len(requests) = 2
    /\ requests[1].call = 1 /\ requests[2].call = 1
    /\ requests[2].page = 2 /\ Ok200(requests[2])
    /\ Len(returned) = 1 /\ Len(returned[1]) = 2
    /\ returned[1][1].id # returned[1][2].id

\* C9: a status other than 200 ends the fetch at once, with no further
\* request to the endpoint, and the fetch returns exactly the pages it had
\* accumulated.
C9_ErrorKeepsPartial ==
    \A i \in 1..Len(requests) :
        (~requests[i].fault /\ requests[i].status # 200) =>
            /\ i < Len(requests) => requests[i + 1].call # requests[i].call
            /\ pc = "fetch" => call # requests[i].call
            /\ Len(returned) >= requests[i].call
            /\ StripAll(returned[requests[i].call]) = PagesOf(requests[i].call)

\* page 2 answered 429 after a good page 1: the fetch has returned the one
\* article of page 1 and the planner has moved on
C9_Witness ==
    /\ Len(requests) = 2
    /\ Ok200(requests[1])
    /\ requests[2].call = 1 /\ requests[2].status = 429
    /\ Len(returned) = 1 /\ Len(returned[1]) = 1
    /\ pc = "fetch" /\ call = 2

Failed(r) == r.fault \/ r.status # 200

\* C10: a failed fetch (status or network fault) aborts only itself: the
\* finished run has fetched every endpoint of the decision table, and every
\* article served on any page, the pages before the failure included, is in
\* the result by id if it passes the filters.
C10_FailureAbortsOneBranch ==
    ( /\ pc = "done" /\ HasCredentials
      /\ \E i \in 1..Len(requests) : Failed(requests[i]) ) =>
        LET served == Served
            ids    == Ids(result)
        IN  /\ CallsMade = 1..Len(TableUrls)
            /\ \A j \in 1..Len(served) : Survives(served[j]) => served[j].id \in ids
            /\ StripAll(Concat(returned)) = served

\* the first brand fails on its second page and the second brand is fetched:
\* the result holds the first brand's page and the second brand's article
C10_Witness ==
    /\ pc = "done" /\ ~published_only /\ selected_categories = <<>>
    /\ selected_brands = <<1, 2>> /\ selected_locales = <<>>
    /\ Len(requests) = 3
    /\ Ok200(requests[1]) /\ requests[2].fault /\ Ok200(requests[3])
    /\ requests[3].call = 2
    /\ Ids(result) = {11, 21}

\* the section table is loaded and lists at least one section
TableAvailable == sections.present /\ sections.value # <<>>

\* positions of the articles whose section is listed under a selected category
InCategoryAt(arts) ==
    {i \in 1..Len(arts) :
        /\ "section_id" \in DOMAIN arts[i]
        /\ \E k \in 1..Len(sections.value) :
              /\ sections.value[k].id = arts[i].section_id
              /\ \E c \in 1..Len(selected_categories) :
                    sections.value[k].category_id = selected_categories[c]}

\* C11: with a non-empty section table and a non-empty selection,
\* filter_by_categories returns, in input order and each at most once, exactly
\* the articles whose section_id is listed in the table under a selected
\* category; an article without section_id, or whose section is not in the
\* table, is left out.
C11_CategoryFilterKeeps ==
    (pc = "filtered" /\ TableAvailable /\ selected_categories # <<>>)
        => /\ KeepsExactly(all_articles, articles, InCategoryAt(articles))
           /\ \A i \in 1..Len(articles) :
                 ("section_id" \notin DOMAIN articles[i]
                    \/ \A k \in 1..Len(sections.value) :
                          sections.value[k].id # articles[i].section_id)
                 => articles[i] \notin Range(all_articles)

\* one article without section, one in an unlisted section, one kept through
\* the second listing of its section
C11_Witness ==
    /\ pc = "filtered"
    /\ sections = Loaded(SectionTableTwice)
    /\ selected_categories = <<10>>
    /\ articles = <<[id |-> 1], [id |-> 2, section_id |-> 3], [id |-> 1, section_id |-> 1]>>
    /\ all_articles = <<[id |-> 1, section_id |-> 1]>>

\* C12: when the section table is empty or was never loaded,
\* filter_by_categories returns its input list unchanged whatever categories
\* are selected, and a warning is displayed.
C12_FailsOpenWithWarning ==
    (pc = "filtered" /\ ~TableAvailable)
        => /\ all_articles = articles
           /\ \E k \in 1..Len(shown) : shown[k].kind = "warning"

\* a selection that would reject both articles if the table were there
C12_Witness ==
    /\ pc = "filtered"
    /\ sections = Missing
    /\ selected_categories = <<30>>
    /\ articles = <<[id |-> 1, section_id |-> 1], [id |-> 2]>>
    /\ all_articles = articles
    /\ shown = <<Shown("warning", "sections data not available")>>

\* the fetch functions that work on one brand
BrandScoped == {"fetch_brand_articles", "fetch_brand_locale_articles"}

\* C13: the base URL of a brand is https://{host_mapping} when host_mapping
\* is non-empty and https://{subdomain}.zendesk.com when it is empty or
\* missing, and every article a brand-scoped fetch returned carries that URL
\* as _brand_url.
C13_BrandBaseUrl ==
    /\ \A b \in Range(brands.value) :
          get_brand_base_url(b) =
             IF "host_mapping" \in DOMAIN b /\ b.host_mapping # ""
             THEN <<"https://", b.host_mapping>>
             ELSE <<"https://", b.subdomain, ".zendesk.com">>
    /\ \A c \in 1..Len(returned) :
          ThePlan[c].fn \in BrandScoped
             => \A k \in 1..Len(returned[c]) :
                   /\ "_brand_url" \in DOMAIN returned[c][k]
                   /\ returned[c][k]._brand_url = BrandBase(ThePlan[c].brand)
    /\ \A k \in 1..Len(result) :
          "_brand_url" \in DOMAIN result[k]
             => result[k]._brand_url = BrandBase(BrandOf(result[k]._brand_id))

\* a brand with a host mapping and one with an empty host mapping, fetched
C13_Witness ==
    /\ pc = "done"
    /\ selected_brands = <<1, 2>>
    /\ \E k \in 1..Len(result) : result[k]._brand_url = <<"https://", "help.bar.com">>
    /\ \E k \in 1..Len(result) : result[k]._brand_url = <<"https://", "foo", ".zendesk.com">>

\* the transform has run and kept every article of the batch, so that the
\* k-th output article is made from the k-th input article
AllKept ==
    /\ pc = "formatted"
    /\ Len(formatted_articles.articles) = Len(fetched_articles)

\* C14: an article with a _brand_url and a non-empty html_url gets the url
\* brand base URL + path of html_url + "?" + query when the query is not
\* empty + "#" + fragment when the fragment is not empty, the scheme and the
\* host of html_url being dropped; any other article keeps html_url as it is.
C14_UrlRewrite ==
    AllKept =>
      \A k \in 1..Len(fetched_articles) :
         LET a == fetched_articles[k]
             o == formatted_articles.articles[k]
         IN  IF "_brand_url" \in DOMAIN a /\ "html_url" \in DOMAIN a /\ a.html_url # <<>>
             THEN \A c \in UrlComponents :
                     a.html_url = HtmlUrl(c)
                       => o.url = a._brand_url \o c.path
                                    \o (IF c.query # <<>> THEN <<"?">> \o c.query ELSE <<>>)
                                    \o (IF c.fragment # <<>> THEN <<"#">> \o c.fragment ELSE <<>>)
             ELSE o.url = Get(a, "html_url", <<>>)

\* an annotated article whose html_url has a query and a fragment
C14_Witness ==
    /\ AllKept
    /\ Len(fetched_articles) = 1
    /\ fetched_articles[1] =
          [_brand_url |-> <<"https://", "help.bar.com">>] @@
          [ScenarioA EXCEPT !.html_url = <<"https:", "//", "foo.zendesk.com",
                                           "/hc", "/42", "?", "q=1", "#", "top">>]
    /\ formatted_articles.articles[1].url =
          <<"https://", "help.bar.com", "/hc", "/42", "?", "q=1", "#", "top">>

\* positions of the batch whose converted content fits in 102,400 bytes
FitsAt(arts) ==
    {k \in 1..Len(arts) : Utf8Len(handle(Get(arts[k], "body", <<>>))) <= 102400}

C16_Language ==
    AllKept =>
      \A k \in 1..Len(fetched_articles) :
         LET a == fetched_articles[k]
             o == formatted_articles.articles[k]
         IN  IF strip(override_language) # <<>>
             THEN o.language = lower(strip(override_language))
             ELSE IF "locale" \in DOMAIN a /\ a.locale # <<>>
                  THEN o.language = lower(a.locale)
                  ELSE o.language = <<"e", "n">>

\* the override 'ES' on an article written in 'fr'
C16_Witness ==
    /\ AllKept
    /\ override_language = <<"E", "S">>
    /\ Len(fetched_articles) = 1
    /\ Get(fetched_articles[1], "locale", <<>>) = <<"f", "r">>
    /\ formatted_articles.articles[1].language = <<"e", "s">>

\* the fields of an output article that do not depend on the id scheme
AssembledFrom(o, a) ==
    /\ o.name = Slice(Get(a, "title", <<>>), 255)
    /\ o.tag_ids = <<>>
    /\ o.knowledge_source_id = knowledge_source_id

\* Scenario A has gone through the transform without an override
ScenarioARun ==
    /\ AllKept
    /\ fetched_articles = <<ScenarioA>>
    /\ override_language = <<>>

\* C17 as stated: the id is 'zd_' + source id, 'zd_42' in Scenario A.
C17_IdWithoutLocale ==
    /\ ScenarioARun => formatted_articles.articles[1].id = <<"zd_", "42">>
    /\ AllKept =>
         \A k \in 1..Len(fetched_articles) :
            /\ formatted_articles.articles[k].id = <<"zd_", ToString(fetched_articles[k].id)>>
            /\ AssembledFrom(formatted_articles.articles[k], fetched_articles[k])

\* C17: Scenario A (id 42, title 'T', locale 'en', no brand annotation, no
\* override) yields id 'zd_42-en', name 'T', its html_url as url, empty
\* tag_ids and language 'en'; in general the id is 'zd_' + source id + '-' +
\* the locale field as received ('en' when the field is missing), the name
\* is title[:255], tag_ids is empty and knowledge_source_id is the value the
\* caller supplied.
C17_FieldAssembly ==
    /\ ScenarioARun =>
         LET o == formatted_articles.articles[1]
         IN  /\ o.id = <<"zd_", "42", "-", "e", "n">>
             /\ o.name = <<Run("T", 1)>>
             /\ o.url = ScenarioA.html_url
             /\ o.tag_ids = <<>>
             /\ o.language = <<"e", "n">>
    /\ AllKept =>
         \A k \in 1..Len(fetched_articles) :
            LET a == fetched_articles[k]
                o == formatted_articles.articles[k]
            IN  /\ o.id = <<"zd_", ToString(a.id), "-">>
                            \o (IF "locale" \in DOMAIN a THEN a.locale ELSE <<"e", "n">>)
                /\ AssembledFrom(o, a)

\* Scenario A, transformed for the knowledge source ks2
C17_Witness ==
    /\ ScenarioARun
    /\ knowledge_source_id = "ks2"
    /\ formatted_articles.articles[1].id = <<"zd_", "42", "-", "e", "n">>
    /\ formatted_articles.articles[1].knowledge_source_id = "ks2"

\* C18 as stated: the batch result is {articles, skippedCount}, skippedCount
\* being the number of articles the size gate rejected, the articles being
\* in input order, and len(articles) + skippedCount the size of the batch.
C18_BatchResult ==
    pc = "formatted" =>
      LET kept == FitsAt(fetched_articles)
          out  == formatted_articles.articles
      IN  /\ DOMAIN formatted_articles = {"articles", "skippedCount"}
          /\ formatted_articles.skippedCount = Len(fetched_articles) - Cardinality(kept)
          /\ Len(out) + formatted_articles.skippedCount = Len(fetched_articles)
          /\ \A k \in kept : out[RankIn(kept, k)].id[2] = ToString(fetched_articles[k].id)

\* the POSTs of the j-th article, as positions in the log
PostsOf(j) == {k \in 1..Len(posts) : posts[k].upload_i = j}

RateLimitedOf(j) == {k \in PostsOf(j) : posts[k].status = 429}

\* the long waits made for the j-th article
LongWaitsOf(j) ==
    {k \in 1..Len(sleeps) : sleeps[k].upload_i = j /\ sleeps[k].ms = 60 * 1000}

\* the last POST of the j-th article was answered 200
EndedWith200(j) ==
    /\ PostsOf(j) # {}
    /\ \E k \in PostsOf(j) : /\ \A m \in PostsOf(j) : m <= k
                             /\ posts[k].status = 200

\* C19 as stated: a 429 counts no error, is followed by one long wait and by
\* a POST of the same article before any other; k 429s and then a 200 for an
\* article make k long waits, k + 1 POSTs, one more success and no more
\* errors.
C19_RateLimitRetry ==
    /\ [][posts' # posts =>
            LET o == posts'[Len(posts')]
            IN  /\ o.status = 429 =>
                      /\ error_count' = error_count
                      /\ success_count' = success_count
                      /\ upload_i' = upload_i
                      /\ pc' = "post"
                      /\ sleeps'[Len(sleeps')] = [upload_i |-> upload_i, ms |-> 60 * 1000]
                /\ o.status = 200 =>
                      /\ success_count' = success_count + 1
                      /\ error_count' = error_count]_vars
    /\ [](\A j \in 1..Len(formatted_articles.articles) :
             /\ \A k \in PostsOf(j) : \A m \in 1..Len(posts) :
                   (k < m /\ posts[m].upload_i # j) => \A n \in PostsOf(j) : n < m
             /\ EndedWith200(j) =>
                   /\ Cardinality(PostsOf(j)) = Cardinality(RateLimitedOf(j)) + 1
                   /\ Cardinality(LongWaitsOf(j)) = Cardinality(RateLimitedOf(j)))

\* the response is a status that is neither 2xx nor 429
Rejected(o) == ~o.fault /\ o.status \notin 200..299 /\ o.status # 429

\* C20: a response that is neither 2xx nor 429 adds exactly one to the error
\* count, the article is not sent again and the driver goes on to the next
\* article; the batch is not aborted, every later article is attempted.
C20_ErrorMovesOn ==
    /\ [][posts' # posts =>
            LET o == posts'[Len(posts')]
            IN  Rejected(o) =>
                   /\ error_count' = error_count + 1
                   /\ success_count' = success_count
                   /\ IF upload_i < Len(formatted_articles.articles)
                      THEN upload_i' = upload_i + 1 /\ pc' = "post"
                      ELSE pc' = "uploaded"]_vars
    /\ [](\A k \in 1..Len(posts) :
             Rejected(posts[k]) =>
                \A m \in (k + 1)..Len(posts) : posts[m].upload_i > posts[k].upload_i)
    /\ []((pc = "uploaded" /\ ada_subdomain # "" /\ ada_api_token # "")
             => \A j \in 1..Len(formatted_articles.articles) : PostsOf(j) # {})

\* the first article rejected with 500, the second one uploaded
C20_Witness ==
    /\ pc = "uploaded"
    /\ Len(posts) = 2
    /\ posts[1].upload_i = 1 /\ posts[1].status = 500
    /\ posts[2].upload_i = 2 /\ posts[2].status = 200 /\ posts[2].decodable
    /\ error_count = 1
    /\ success_count = 1

\* the driver leaves the article it has just posted for the next one
MovesOn ==
    IF upload_i < Len(formatted_articles.articles)
    THEN upload_i' = upload_i + 1 /\ pc' = "post"
    ELSE pc' = "uploaded"

\* C21 as stated, for responses with a JSON body: every status from 200 to
\* 299 counts the article as a success, success count +1 and error count
\* unchanged, and the driver moves on to the next article.
C21_Every2xxSucceeds ==
    [][posts' # posts =>
          LET o == posts'[Len(posts')]
          IN  (~o.fault /\ o.decodable /\ o.status \in 200..299) =>
                 /\ success_count' = success_count + 1
                 /\ error_count' = error_count
                 /\ MovesOn]_vars

\* the response gives the article its final outcome: anything but a 429
Final(o) == o.fault \/ o.status # 429

\* C22: the articles are posted one per payload, one after the other in
\* input order: the first POST of article j+1 comes only after article j has
\* had its final outcome, success or error, and no article is posted again
\* after its final outcome.
C22_SequentialUpload ==
    /\ \A k \in 1..Len(posts) :
          /\ Len(posts[k].payload) = 1
          /\ posts[k].upload_i \in 1..Len(formatted_articles.articles)
          /\ posts[k].payload[1] = formatted_articles.articles[posts[k].upload_i]
    /\ posts # <<>> => posts[1].upload_i = 1
    /\ \A k \in 1..(Len(posts) - 1) :
          IF Final(posts[k])
          THEN posts[k + 1].upload_i = posts[k].upload_i + 1
          ELSE posts[k + 1].upload_i = posts[k].upload_i
    /\ \A k \in 1..Len(posts) :
          Final(posts[k]) => \A m \in (k + 1)..Len(posts) :
                                posts[m].upload_i > posts[k].upload_i

\* the first article sent twice because of a 429, then the second one
C22_Witness ==
    /\ pc = "uploaded"
    /\ Len(formatted_articles.articles) = 2
    /\ Len(posts) = 3
    /\ posts[1].upload_i = 1 /\ posts[1].status = 429
    /\ posts[2].upload_i = 1 /\ posts[2].status = 200
    /\ posts[3].upload_i = 2 /\ posts[3].status = 500

\* every article of the batch has had a POST with a final outcome
AllAttempted ==
    \A j \in 1..Len(formatted_articles.articles) :
       \E k \in PostsOf(j) : Final(posts[k])

\* C23: the summary {success_count, error_count, total_articles} exists only
\* once the last article has had its final outcome, never in the middle of
\* the batch, and it carries the counts of the whole batch; and an upload that
\* has passed the credential check, with no article answered 429 for ever,
\* ends with every article of the batch attempted and the summary made.
C23_AggregateAtEnd ==
    /\ [](summary.present =>
            /\ pc = "uploaded"
            /\ AllAttempted
            /\ summary = Summary(success_count, error_count,
                                 formatted_articles.articles))
    /\ (pc = "upload" /\ ada_subdomain # "" /\ ada_api_token # "")
          ~> (pc = "uploaded" /\ AllAttempted /\ summary.present)

C23_Witness ==
    /\ pc = "uploaded"
    /\ summary = [present |-> TRUE, success_count |-> 1, error_count |-> 1,
                  total_articles |-> 2]
    /\ Len(posts) = 4
    /\ posts[1].status = 429 /\ posts[2].status = 429 /\ posts[3].status = 500
    /\ posts[4].upload_i = 2 /\ posts[4].status = 201 /\ posts[4].decodable

\* C24: a network fault is handled like a remote error.  In a paginated
\* fetch it ends the pagination of that endpoint, no further page is asked
\* for, and the pages accumulated so far are returned; in the upload it adds
\* exactly one to the error count of the article being sent, the article is
\* not sent again, and the driver goes on to the next article.
C24_FaultLikeRemoteError ==
    /\ [][requests' # requests =>
            LET o == requests'[Len(requests')]
            IN  o.fault =>
                   /\ returned' = Append(returned, articles)
                   /\ pc' = "done" \/ call' # call
                   /\ \E k \in (Len(shown) + 1)..Len(shown') : shown'[k].kind = "error"]_vars
    /\ [](\A k \in 1..Len(requests) :
             requests[k].fault =>
                /\ k < Len(requests) => requests[k + 1].call # requests[k].call
                /\ pc = "fetch" => call # requests[k].call)
    /\ [][posts' # posts =>
            LET o == posts'[Len(posts')]
            IN  o.fault =>
                   /\ error_count' = error_count + 1
                   /\ success_count' = success_count
                   /\ MovesOn]_vars
    /\ [](\A k \in 1..Len(posts) :
             posts[k].fault =>
                \A m \in (k + 1)..Len(posts) : posts[m].upload_i > posts[k].upload_i)

\* the second page of the first endpoint met a fault: the first page is
\* returned and the next endpoint is asked
C24_Witness ==
    /\ Len(requests) = 3
    /\ requests[1].call = 1 /\ requests[1].status = 200
    /\ requests[2].call = 1 /\ requests[2].fault
    /\ requests[3].call = 2
    /\ Len(returned[1]) = 1

\* the messages and the audit-log entries a step adds
NewShown == {shown'[k] : k \in (Len(shown) + 1)..Len(shown')}

NewLogs == {api_logs'[k] : k \in (Len(api_logs) + 1)..Len(api_logs')}

\* the step reports a failure to the user and to the audit log
FailureReported ==
    /\ \E m \in NewShown : m.kind \in {"error", "warning"}
    /\ \E e \in NewLogs : e.status \in {"ERROR", "WARNING"}

\* C25 as stated: every failure of the fetch and of the upload, a status
\* other than success or a network fault on any article endpoint (the
\* category-only full fetch included) or on any article upload, shows a
\* message to the user and appends an entry to the audit log.
C25_FailuresLogged ==
    /\ [][requests' # requests =>
            LET o == requests'[Len(requests')]
            IN  (o.fault \/ o.status # 200) => FailureReported]_vars
    /\ [][posts' # posts =>
            LET o == posts'[Len(posts')]
            IN  (o.fault \/ o.status \notin 200..299) => FailureReported]_vars

\* the characters of a locale string of the Help Center
Chars(loc) ==
    IF loc = "en" THEN <<"e", "n">>
    ELSE IF loc = "fr" THEN <<"f", "r">>
    ELSE <<"e", "n", "-", "u", "s">>

\* a fetched article as format_articles_for_ada reads it
AsFetched(article) == [article EXCEPT !.locale = Chars(@)]

\* the destination id of a fetched article
DestinationId(article) == ada_article(AsFetched(article), "ks1", <<>>).id

\* C26: the destination ids are unique.  The transform of what
\* fetch_articles_with_filters returns keeps every article and holds no id
\* twice, and two source articles that differ in id or in locale never get
\* the same destination id.
C26_UniqueDestinationIds ==
    pc = "done" =>
        LET out == format_articles_for_ada(
                       [k \in 1..Len(result) |-> AsFetched(result[k])], "ks1", <<>>).articles
            variants == {[id |-> a.id, locale |-> a.locale] : a \in Range(Served)}
            dest     == {<<v, DestinationId(v)>> : v \in variants}
        IN  /\ Len(out) = Len(result)
            /\ Cardinality({out[k].id : k \in 1..Len(out)}) = Len(out)
            /\ \A x, y \in dest : x[1] # y[1] => x[2] # y[2]

\* two brands and two locales: the four endpoints serve two ids in two
\* locales each, and the two articles returned get two destination ids
C26_Witness ==
    /\ pc = "done"
    /\ Len(result) = 2
    /\ Cardinality({DestinationId(a) : a \in Range(result)}) = 2
    /\ Cardinality({a.id : a \in Range(Served)}) = 2
    /\ Cardinality({a.locale : a \in Range(Served)}) = 2
    /\ Cardinality({DestinationId(a) : a \in Range(Served)}) = 4

\* C27 as stated: when the upload finishes every input article has been
\* counted exactly once, success_count + error_count is the number of input
\* articles, whatever the service answered.
C27_CountedOnce ==
    (pc = "uploaded" /\ summary.present) =>
        success_count + error_count = Len(formatted_articles.articles)

\* C30 as stated: with published_only set the draft filter drops an article
\* only if its draft flag is true; an article with no draft field at all is
\* treated as published and kept.
C30_NoDraftFieldKept ==
    (pc = "published" /\ published_only) =>
        \A k \in 1..Len(articles) :
           ("draft" \notin DOMAIN articles[k] \/ ~articles[k].draft)
              => articles[k] \in Range(all_articles)

\* C28 as stated: the locale variants of one article are kept apart.  When
\* two locale (or brand+locale) fetches return the same article id, both
\* variants are in what fetch_articles_with_filters returns, and each has its
\* own destination article, whose id zd_{id}-{locale} bears its locale.
C28_LocaleVariantsKept ==
    pc = "done" =>
        \A a \in Range(Served) :
           Survives(a) =>
              /\ \E k \in 1..Len(result) :
                    result[k].id = a.id /\ result[k].locale = a.locale
              /\ \E k \in 1..Len(result) :
                    DestinationId(result[k]) = <<"zd_", ToString(a.id), "-">> \o Chars(a.locale)

\* the requests made for the brand of id b
RequestsFor(b) ==
    {k \in 1..Len(requests) : ThePlan[requests[k].call].brand.id = b}

====
